---- MODULE Spec2Model ----
(***************************************************************************)
(* The question-answering client: the answer service get_llm_answer        *)
(* (LLM_QA_CLI.py) and get_llm_answer_api (app.py), the interactive loop   *)
(* main() and the /ask handler ask_llm().                                  *)
(*                                                                         *)
(* Values.  A JSON / Python value is a record [t, s, c, l, d]: t is the    *)
(* Python type ("null" for None, "str", "list", "obj" for dict); s or c    *)
(* holds the content of a str, l the items of a list, d the items of a     *)
(* dict (a function of its keys); the fields a type does not use are       *)
(* empty.  A string the program only copies or compares whole (response    *)
(* text, messages, uri, title) is a TLA+ string, in s.  A string it        *)
(* inspects character by character (the input line, the question) is a     *)
(* sequence of one-character strings, in c.                                *)
(***************************************************************************)
EXTENDS Integers, Sequences, FiniteSets, TLC

\* -------------------------------------------------------------- bounds
\* Longest groundingAttributions list a response body carries.
MaxAttrs == 2
\* Lines the interactive loop reads / requests the web handler serves.
MaxInputs == 2
\* Invocations of the service running at the same time.
MaxConcurrent == 2

\* ----------------------------------------------------- program constants
MAX_RETRIES == 5
\* requests.post(..., timeout=30): the longest an attempt waits.
timeout == 30

\* ------------------------------------------------------- Python values
NoItems == [k \in {} |-> ""]
None == [t |-> "null", s |-> "", c |-> <<>>, l |-> <<>>, d |-> NoItems]
Str(x) == [None EXCEPT !.t = "str", !.s = x]
Chars(x) == [None EXCEPT !.t = "str", !.c = x]
List(items) == [None EXCEPT !.t = "list", !.l = items]
Obj(f) == [None EXCEPT !.t = "obj", !.d = f]
EmptyObj == Obj(NoItems)
Obj1(k1, v1) == Obj([k \in {k1} |-> v1])
Obj2(k1, v1, k2, v2) == Obj([k \in {k1, k2} |-> IF k = k1 THEN v1 ELSE v2])

\* The outcome of evaluating Python code: a value, or a raised exception.
Ret(val) == [k |-> "return", v |-> val]
Raise(cls, msg) == [k |-> "raise", cls |-> cls, msg |-> msg]

TypeName(x) ==
  CASE x.t = "null" -> "NoneType"
    [] x.t = "str" -> "str"
    [] x.t = "list" -> "list"
    [] x.t = "obj" -> "dict"

\* bool(x): None, "", [] and {} are false.
Truthy(x) ==
  CASE x.t = "null" -> FALSE
    [] x.t = "str" -> x.s # "" \/ Len(x.c) > 0
    [] x.t = "list" -> Len(x.l) > 0
    [] x.t = "obj" -> DOMAIN x.d # {}

\* x.get(key, default): only a dict has the method.
PyGet(x, key, default) ==
  IF x.t = "obj"
    THEN Ret(IF key \in DOMAIN x.d THEN x.d[key] ELSE default)
    ELSE Raise("AttributeError", "'" \o TypeName(x) \o "' object has no attribute 'get'")

\* x[0], for the values the modelled bodies put there (None, list, dict).
PyItem0(x) ==
  CASE x.t = "list" ->
         IF Len(x.l) > 0 THEN Ret(x.l[1])
         ELSE Raise("IndexError", "list index out of range")
    [] x.t = "obj" -> Raise("KeyError", "0")
    [] x.t = "null" -> Raise("TypeError", "'NoneType' object is not subscriptable")

\* x[key] with a string key.
PyItem(x, key) ==
  CASE x.t = "obj" ->
         IF key \in DOMAIN x.d THEN Ret(x.d[key])
         ELSE Raise("KeyError", "'" \o key \o "'")
    [] x.t = "list" -> Raise("TypeError", "list indices must be integers or slices, not str")
    [] x.t = "str" -> Raise("TypeError", "string indices must be integers")
    [] x.t = "null" -> Raise("TypeError", "'NoneType' object is not subscriptable")

\* sub in s for two strings: substring search.  No string of the modelled
\* bodies properly contains "web", "uri" or "title", so it is equality here.
StrContains(sub, s) == s = sub

\* key in x: a key of a dict, an element of a list, a substring of a str;
\* None is not iterable.  The value returned is a TLA+ boolean.
PyIn(key, x) ==
  CASE x.t = "obj" -> Ret(key \in DOMAIN x.d)
    [] x.t = "list" -> Ret(\E i \in 1..Len(x.l) : x.l[i] = Str(key))
    [] x.t = "str" -> Ret(StrContains(key, x.s))
    [] x.t = "null" -> Raise("TypeError", "argument of type 'NoneType' is not iterable")

\* ------------------------------------------------- exception classes
\* requests >= 2.27 derives requests.exceptions.JSONDecodeError, which
\* response.json() raises, from RequestException (through InvalidJSONError);
\* before 2.27 response.json() raises a plain ValueError subclass.  The
\* repository pins no version, so either library may be the one installed.
RequestsVersions == {"pre_2_27", "2_27_plus"}

\* The base classes of an exception class (the class itself included).
Ancestors(cls, version) ==
  CASE cls \in {"ConnectionError", "Timeout", "HTTPError"} ->
         {cls, "RequestException", "OSError", "Exception", "BaseException"}
    [] cls = "JSONDecodeError" ->
         IF version = "2_27_plus"
           THEN {cls, "InvalidJSONError", "RequestException", "OSError",
                 "ValueError", "Exception", "BaseException"}
           ELSE {cls, "ValueError", "Exception", "BaseException"}
    [] cls \in {"IndexError", "KeyError"} ->
         {cls, "LookupError", "Exception", "BaseException"}
    [] cls \in {"AttributeError", "TypeError"} ->
         {cls, "Exception", "BaseException"}

\* except base: does the clause catch an exception of class cls?
Catches(base, cls, version) == base \in Ancestors(cls, version)

\* ------------------------------------------------ the remote endpoint
\* One attempt's outcome, as the transport delivers it: a connection error,
\* a timeout, a non-2xx status, or a 2xx response with a body.  A body is
\* text that either parses to a JSON value or does not.
NoBody == [valid |-> FALSE, json |-> None]
Body(j) == [valid |-> TRUE, json |-> j]
Outcome(kind, body) == [kind |-> kind, body |-> body]
TransportFailures == {"conn", "timeout", "http"}

\* requests.post(..., timeout=30) followed by raise_for_status().
requests_post(o) ==
  CASE o.kind = "conn" -> Raise("ConnectionError", "Connection refused")
    [] o.kind = "timeout" -> Raise("Timeout", "Read timed out. (read timeout=30)")
    [] o.kind = "http" -> Raise("HTTPError", "500 Server Error")
    [] o.kind = "ok" -> Ret(o.body)

\* response.json()
response_json(body) ==
  IF body.valid THEN Ret(body.json)
  ELSE Raise("JSONDecodeError", "Expecting value: line 1 column 1 (char 0)")

\* ----------------------------- parsing the response (both programs)
\* Lines 36-54 of app.py repeat lines 51-68 of LLM_QA_CLI.py word for word;
\* the operators below, down to FirstCandidate, translate that text once.
\* The filter of the list comprehension:
\*   'web' in attr and 'uri' in attr['web'] and 'title' in attr['web']
AttrFilter(attr) ==
  LET hasWeb == PyIn("web", attr) IN
  IF hasWeb.k = "raise" THEN hasWeb
  ELSE IF ~hasWeb.v THEN Ret(FALSE)
  ELSE LET web == PyItem(attr, "web") IN
       IF web.k = "raise" THEN web
       ELSE LET hasUri == PyIn("uri", web.v) IN
            IF hasUri.k = "raise" THEN hasUri
            ELSE IF ~hasUri.v THEN Ret(FALSE)
            ELSE PyIn("title", web.v)

\* The element of the list comprehension:
\*   {"uri": attr['web']['uri'], "title": attr['web']['title']}
AttrSource(attr) ==
  LET web == PyItem(attr, "web") IN
  IF web.k = "raise" THEN web
  ELSE LET uri == PyItem(web.v, "uri") IN
       IF uri.k = "raise" THEN uri
       ELSE LET title == PyItem(web.v, "title") IN
            IF title.k = "raise" THEN title
            ELSE Ret(Obj2("uri", uri.v, "title", title.v))

\* The list comprehension over a list of attributions, left to right; the
\* first exception ends it.
RECURSIVE Comprehension(_)
Comprehension(attrs) ==
  IF attrs = <<>> THEN Ret(<<>>)
  ELSE LET keep == AttrFilter(Head(attrs)) IN
       IF keep.k = "raise" THEN keep
       ELSE LET src == IF keep.v THEN AttrSource(Head(attrs)) ELSE Ret(None) IN
            IF src.k = "raise" THEN src
            ELSE LET rest == Comprehension(Tail(attrs)) IN
                 IF rest.k = "raise" THEN rest
                 ELSE Ret((IF keep.v THEN <<src.v>> ELSE <<>>) \o rest.v)

\* for attr in x: a list yields its items; None is not iterable.
PyIterate(x) ==
  CASE x.t = "list" -> Ret(x.l)
    [] x.t = "null" -> Raise("TypeError", "'NoneType' object is not iterable")

\* An extraction that leaves sources unset (None) when the candidate has no
\* grounding metadata.
ExtractSourcesUnset(candidate) ==
  LET gm == PyGet(candidate, "groundingMetadata", None) IN
  IF gm.k = "raise" THEN gm
  ELSE IF ~Truthy(gm.v) THEN Ret(None)
  ELSE LET srcs == Comprehension(PyGet(gm.v, "groundingAttributions", List(<<>>)).v.l) IN
       IF srcs.k = "raise" THEN srcs ELSE Ret(List(srcs.v))

\* sources = [] ; if grounding_metadata and grounding_metadata.get(
\* 'groundingAttributions'): sources = [...]
ExtractSources(candidate) ==
  LET gm == PyGet(candidate, "groundingMetadata", None) IN
  IF gm.k = "raise" THEN gm
  ELSE IF ~Truthy(gm.v) THEN Ret(List(<<>>))
  ELSE LET ga == PyGet(gm.v, "groundingAttributions", None) IN
       IF ga.k = "raise" THEN ga
       ELSE IF ~Truthy(ga.v) THEN Ret(List(<<>>))
       ELSE LET items == PyIterate(PyItem(gm.v, "groundingAttributions").v) IN
            IF items.k = "raise" THEN items
            ELSE LET srcs == Comprehension(items.v) IN
                 IF srcs.k = "raise" THEN srcs ELSE Ret(List(srcs.v))

\* candidate['content']['parts'][0]['text']
CandidateText(candidate) ==
  LET content == PyItem(candidate, "content") IN
  IF content.k = "raise" THEN content
  ELSE LET parts == PyItem(content.v, "parts") IN
       IF parts.k = "raise" THEN parts
       ELSE LET part == PyItem0(parts.v) IN
            IF part.k = "raise" THEN part
            ELSE PyItem(part.v, "text")

\* not candidate or not candidate.get('content')
\*               or not candidate['content'].get('parts')
\* Ret(TRUE) when the shape is missing, Ret(FALSE) when present.
ShapeMissing(candidate) ==
  IF ~Truthy(candidate) THEN Ret(TRUE)
  ELSE LET content == PyGet(candidate, "content", None) IN
       IF content.k = "raise" THEN content
       ELSE IF ~Truthy(content.v) THEN Ret(TRUE)
       ELSE LET parts == PyGet(content.v, "parts", None) IN
            IF parts.k = "raise" THEN parts
            ELSE Ret(~Truthy(parts.v))

\* candidate = result.get('candidates', [None])[0]
FirstCandidate(result) ==
  LET cands == PyGet(result, "candidates", List(<<None>>)) IN
  IF cands.k = "raise" THEN cands ELSE PyItem0(cands.v)

\* --------------------------------------------- the service, CLI program
\* The returned dict {"text": ..., "sources": ...}.
CliAnswer(text, sources) == Obj2("text", text, "sources", sources)

\* The body of the try statement of get_llm_answer: Ret(the dict returned)
\* or Raise(what the try body raised), for one attempt's outcome.
get_llm_answer_try(o) ==
  LET response == requests_post(o) IN
  IF response.k = "raise" THEN response
  ELSE LET result == response_json(response.v) IN
  IF result.k = "raise" THEN result
  ELSE LET candidate == FirstCandidate(result.v) IN
  IF candidate.k = "raise" THEN candidate
  ELSE LET missing == ShapeMissing(candidate.v) IN
  IF missing.k = "raise" THEN missing
  ELSE IF missing.v
    THEN Ret(CliAnswer(Str("API response was empty or malformed."), List(<<>>)))
  ELSE LET text == CandidateText(candidate.v) IN
  IF text.k = "raise" THEN text
  ELSE LET sources == ExtractSources(candidate.v) IN
  IF sources.k = "raise" THEN sources
  ELSE Ret(CliAnswer(text.v, sources.v))

\* A retry test that gives up one attempt early.
CliRetryAllowedEarly(attempt) == attempt < MAX_RETRIES - 2

\* if attempt < MAX_RETRIES - 1: sleep and go round again.
CliRetryAllowed(attempt) == attempt < MAX_RETRIES - 1

\* wait_time = 2 ** attempt
\* A backoff that starts at 4.
CliWaitTimeShifted(attempt) == 2 ^ (attempt + 2)

CliWaitTime(attempt) == 2 ^ attempt

\* The dict returned after the last failed attempt.
CliExhausted(msg) ==
  CliAnswer(Str("Error: Failed to connect to API after " \o ToString(MAX_RETRIES)
                \o " attempts. " \o msg), List(<<>>))

\* The dict returned by the except Exception clause.
CliUnexpected(msg) ==
  CliAnswer(Str("An unexpected error occurred: " \o msg), List(<<>>))

\* The two except clauses of get_llm_answer, in their order.
CliFirstClause == "RequestException"
\* A second clause that catches only ValueError.
CliSecondClauseNarrow == "ValueError"
CliSecondClause == "Exception"

\* ------------------------------------------- the service, web program
\* The returned dict {"answer": ..., "sources": ...}.
WebAnswer(text, sources) == Obj2("answer", text, "sources", sources)

\* The body of the try statement of get_llm_answer_api.
get_llm_answer_api_try(o) ==
  LET response == requests_post(o) IN
  IF response.k = "raise" THEN response
  ELSE LET result == response_json(response.v) IN
  IF result.k = "raise" THEN result
  ELSE LET candidate == FirstCandidate(result.v) IN
  IF candidate.k = "raise" THEN candidate
  ELSE LET missing == ShapeMissing(candidate.v) IN
  IF missing.k = "raise" THEN missing
  ELSE IF missing.v
    THEN Ret(WebAnswer(Str("Error: API response was empty or malformed."), List(<<>>)))
  ELSE LET text == CandidateText(candidate.v) IN
  IF text.k = "raise" THEN text
  ELSE LET sources == ExtractSources(candidate.v) IN
  IF sources.k = "raise" THEN sources
  ELSE Ret(WebAnswer(text.v, sources.v))

\* A retry test that gives up one attempt early.
WebRetryAllowedEarly(attempt) == attempt < MAX_RETRIES - 2

WebRetryAllowed(attempt) == attempt < MAX_RETRIES - 1

WebWaitTime(attempt) == 2 ^ attempt

WebExhausted(msg) ==
  WebAnswer(Str("API Error: Failed to connect to LLM after " \o ToString(MAX_RETRIES)
                \o " attempts. " \o msg), List(<<>>))

WebUnexpected(msg) ==
  WebAnswer(Str("An unexpected error occurred: " \o msg), List(<<>>))

WebFirstClause == "RequestException"
WebSecondClause == "Exception"

\* ------------------------------------------------- one invocation's state
\* pc: "idle" (not called), "try" (about to post), "sleep" (in time.sleep),
\* "returned", "raised".  attempt is the loop variable; wait the duration of
\* the sleep in progress; ret the value returned; exc what was raised to the
\* caller.  The rest records what the invocation did: posts counts the
\* requests.post calls, sleeps lists the time.sleep durations, first2xx is
\* the number (1-based) of the first attempt that received a 2xx response
\* (0: none so far, every attempt failed at transport level), last the kind
\* of the last attempt's outcome and lastBody its body.  payload is the
\* local of that name and sent lists the JSON bodies posted, in order.
IdleCall ==
  [pc |-> "idle", prompt |-> <<>>, attempt |-> 0, wait |-> 0, ret |-> None,
   exc |-> "none", posts |-> 0, sleeps |-> <<>>, first2xx |-> 0,
   last |-> "none", lastBody |-> NoBody, payload |-> None, sent |-> <<>>]

\* The call: the for loop starts with attempt = 0.
StartCall(prompt) == [IdleCall EXCEPT !.pc = "try", !.prompt = prompt]

\* payload = {"contents": [{"parts": [{"text": prompt}]}],
\*            "tools": [{"google_search": {}}],
\*            "systemInstruction": {"parts": [{"text": "..."}]}}
Payload(prompt, instruction) ==
  Obj([k \in {"contents", "tools", "systemInstruction"} |->
         CASE k = "contents" ->
                List(<<Obj1("parts", List(<<Obj1("text", Chars(prompt))>>))>>)
           [] k = "tools" -> List(<<Obj1("google_search", EmptyObj)>>)
           [] k = "systemInstruction" ->
                Obj1("parts", List(<<Obj1("text", Str(instruction))>>))])

CliPayload(prompt) ==
  Payload(prompt, "You are a helpful and expert Question-Answering system. "
    \o "Provide a concise and accurate answer based on the query and use "
    \o "Google Search grounding when necessary.")

WebPayload(prompt) ==
  Payload(prompt, "You are a helpful and expert Question-Answering system. "
    \o "Provide a concise, clear, and factual answer based on the query, "
    \o "citing sources if used.")

\* get_llm_answer(prompt) / get_llm_answer_api(prompt) down to the for loop:
\* the payload is built, once.
CliCall(prompt) == [StartCall(prompt) EXCEPT !.payload = CliPayload(prompt)]
WebCall(prompt) == [StartCall(prompt) EXCEPT !.payload = WebPayload(prompt)]

\* What one attempt adds to the record of the invocation.
Recorded(s, o) ==
  [s EXCEPT !.posts = @ + 1,
            !.sent = Append(@, s.payload),
            !.first2xx = IF o.kind = "ok" /\ @ = 0 THEN s.posts + 1 ELSE @,
            !.last = o.kind,
            !.lastBody = o.body]

\* One iteration of the for loop of get_llm_answer, up to its return or to
\* the start of its sleep.
get_llm_answer(s, o, version) ==
  LET r == get_llm_answer_try(o)
      s1 == Recorded(s, o) IN
  IF r.k = "return" THEN [s1 EXCEPT !.pc = "returned", !.ret = r.v]
  ELSE IF Catches(CliFirstClause, r.cls, version)
    THEN IF CliRetryAllowed(s.attempt)
           THEN [s1 EXCEPT !.pc = "sleep", !.wait = CliWaitTime(s.attempt)]
           ELSE [s1 EXCEPT !.pc = "returned", !.ret = CliExhausted(r.msg)]
  ELSE IF Catches(CliSecondClause, r.cls, version)
    THEN [s1 EXCEPT !.pc = "returned", !.ret = CliUnexpected(r.msg)]
  ELSE [s1 EXCEPT !.pc = "raised", !.exc = r.cls]

\* One iteration of the for loop of get_llm_answer_api.
get_llm_answer_api(s, o, version) ==
  LET r == get_llm_answer_api_try(o)
      s1 == Recorded(s, o) IN
  IF r.k = "return" THEN [s1 EXCEPT !.pc = "returned", !.ret = r.v]
  ELSE IF Catches(WebFirstClause, r.cls, version)
    THEN IF WebRetryAllowed(s.attempt)
           THEN [s1 EXCEPT !.pc = "sleep", !.wait = WebWaitTime(s.attempt)]
           ELSE [s1 EXCEPT !.pc = "returned", !.ret = WebExhausted(r.msg)]
  ELSE IF Catches(WebSecondClause, r.cls, version)
    THEN [s1 EXCEPT !.pc = "returned", !.ret = WebUnexpected(r.msg)]
  ELSE [s1 EXCEPT !.pc = "raised", !.exc = r.cls]

\* time.sleep(wait_time) ends and the for loop takes its next value; when
\* range(MAX_RETRIES) is exhausted the function ends without a return
\* statement, which returns None.
AfterSleep(s) ==
  LET s1 == [s EXCEPT !.sleeps = Append(@, s.wait), !.wait = 0,
                      !.attempt = @ + 1] IN
  IF s.attempt + 1 < MAX_RETRIES
    THEN [s1 EXCEPT !.pc = "try"]
    ELSE [s1 EXCEPT !.pc = "returned", !.ret = None]

\* ------------------------------------- str methods on character sequences
UpperCase == <<"A","B","C","D","E","F","G","H","I","J","K","L","M",
               "N","O","P","Q","R","S","T","U","V","W","X","Y","Z">>
LowerCase == <<"a","b","c","d","e","f","g","h","i","j","k","l","m",
               "n","o","p","q","r","s","t","u","v","w","x","y","z">>
Digits == {"0","1","2","3","4","5","6","7","8","9"}
Range(f) == {f[i] : i \in DOMAIN f}

LowerChar(c) ==
  IF c \in Range(UpperCase)
    THEN LowerCase[CHOOSE i \in 1..26 : UpperCase[i] = c]
    ELSE c

\* str.lower()
Lower(s) == [i \in 1..Len(s) |-> LowerChar(s[i])]

\* \s of the re module, and the whitespace str.strip() and str.split() remove.
IsSpace(c) == c \in {" ", "\t", "\n", "\r"}

\* \w of the re module.
IsWord(c) == c \in Range(UpperCase) \cup Range(LowerCase) \cup Digits \cup {"_"}

RECURSIVE LStrip(_)
LStrip(s) == IF s # <<>> /\ IsSpace(Head(s)) THEN LStrip(Tail(s)) ELSE s

RECURSIVE RStrip(_)
RStrip(s) ==
  IF s # <<>> /\ IsSpace(s[Len(s)]) THEN RStrip(SubSeq(s, 1, Len(s) - 1)) ELSE s

\* str.strip()
Strip(s) == RStrip(LStrip(s))

\* re.sub(r'[^\w\s]', '', text)
RECURSIVE RemovePunctuation(_)
RemovePunctuation(s) ==
  IF s = <<>> THEN <<>>
  ELSE (IF IsWord(Head(s)) \/ IsSpace(Head(s)) THEN <<Head(s)>> ELSE <<>>)
       \o RemovePunctuation(Tail(s))

\* ' '.join(text.split()): runs of whitespace become one space, none is left
\* at either end.
RECURSIVE SplitJoin(_)
SplitJoin(s) ==
  LET t == LStrip(s) IN
  IF t = <<>> THEN <<>>
  ELSE IF Len(t) > 1 /\ IsSpace(t[2]) /\ LStrip(Tail(t)) # <<>>
         THEN <<Head(t), " ">> \o SplitJoin(Tail(t))
         ELSE <<Head(t)>> \o SplitJoin(Tail(t))

preprocess_question(question) == SplitJoin(RemovePunctuation(Lower(question)))

\* ------------------------------------------------------ the inputs drawn
\* Attributions: no web, web null, web a list, web without title, web
\* without uri, and two complete ones.
AttrKinds ==
  { EmptyObj,
    Obj1("web", None),
    Obj1("web", List(<<>>)),
    Obj1("web", Obj1("uri", Str("u1"))),
    Obj1("web", Obj1("title", Str("t1"))),
    Obj1("web", Obj2("uri", Str("u1"), "title", Str("t1"))),
    Obj1("web", Obj2("uri", Str("u2"), "title", Str("t2"))) }

AttrLists == UNION {[1..n -> AttrKinds] : n \in 0..MaxAttrs}

GoodContent == Obj1("parts", List(<<Obj1("text", Str("Paris."))>>))

\* Candidates with the expected content and every grounding variant.
GoodCandidates ==
  { Obj1("content", GoodContent),
    Obj2("content", GoodContent, "groundingMetadata", None),
    Obj2("content", GoodContent, "groundingMetadata", EmptyObj),
    Obj2("content", GoodContent, "groundingMetadata",
         Obj1("groundingAttributions", None)) }
  \cup { Obj2("content", GoodContent, "groundingMetadata",
              Obj1("groundingAttributions", List(attrs))) : attrs \in AttrLists }

\* Candidates of another shape.
OddCandidates ==
  { None,
    EmptyObj,
    Str("x"),
    Obj1("content", None),
    Obj1("content", EmptyObj),
    Obj1("content", Str("x")),
    Obj1("content", Obj1("parts", None)),
    Obj1("content", Obj1("parts", List(<<>>))),
    Obj1("content", Obj1("parts", List(<<EmptyObj>>))),
    Obj1("content", Obj1("parts", List(<<None>>))),
    Obj1("content", Obj1("parts", List(<<Obj1("text", None)>>))) }

\* The JSON values a 2xx response may carry.
JsonResults ==
  { None, List(<<>>), EmptyObj,
    Obj1("candidates", None),
    Obj1("candidates", List(<<>>)),
    Obj1("candidates", List(<<Obj1("content", GoodContent), None>>)) }
  \cup { Obj1("candidates", List(<<c>>)) : c \in GoodCandidates \cup OddCandidates }

Bodies == {NoBody} \cup {Body(j) : j \in JsonResults}

Outcomes ==
  {Outcome(kind, NoBody) : kind \in TransportFailures}
  \cup {Outcome("ok", b) : b \in Bodies}

\* Lines typed at the prompt of the interactive loop.
Lines ==
  { <<"Q","u","i","t">>, <<"E","X","I","T">>,
    <<>>, <<" ","\t">>,
    <<" ","q","u","i","t">>,
    <<"H","i",",", " ", " ", "Y","o","u","?">> }

\* JSON object bodies posted to /ask: no question, a null question, and
\* question strings.
Questions == { <<>>, <<" "," ">>, <<" ","H","i","?"," ">> }
RequestBodies ==
  { EmptyObj, Obj1("question", None), Obj1("other", Chars(<<"x">>)) }
  \cup { Obj1("question", Chars(q)) : q \in Questions }

\* --------------------------------------------------------------- state
\* app: which of the two programs runs ("cli": LLM_QA_CLI.py, "web": app.py).
\* version: the requests library installed.  pc: where the caller is: the
\* loop of main() is at "read" (in input()), "call" (in get_llm_answer) or
\* "exited"; the web application is at "wait" (no request in progress) or
\* "call" (ask_llm is in get_llm_answer_api).  served: inputs taken so far.
\* line: the line last read.  out: what the current loop iteration printed.
\* req: the JSON body of the request last received.  resp: the response
\* last sent.  calls: service invocations made for the current input.
\* svc: the state of the service invocation in progress; its frame is gone
\* (IdleCall) once the caller has taken the value it returned.
\* frames: the frames of get_llm_answer / get_llm_answer_api in the
\* specifications that run the service without its caller (none under Spec).
VARIABLES app, version, pc, served, line, out, req, resp, calls, svc, frames

vars == <<app, version, pc, served, line, out, req, resp, calls, svc, frames>>

NoResponse == [status |-> 0, json |-> None]

\* The program starts: main() is at its first input(), the web application
\* waits for its first request.
InitCaller ==
  /\ app \in {"cli", "web"}
  /\ version \in RequestsVersions
  /\ pc = IF app = "cli" THEN "read" ELSE "wait"
  /\ served = 0
  /\ line = <<>>
  /\ out = <<>>
  /\ req = EmptyObj
  /\ resp = NoResponse
  /\ calls = 0
  /\ svc = IdleCall

Init == InitCaller /\ frames = <<>>

\* ------------------------------------------------- the interactive loop
\* A printed line: what it is, and the values formatted into it (n, a and b
\* of a source line are its number, title and uri).
Item(kind, n, a, b) == [kind |-> kind, n |-> n, a |-> a, b |-> b]
Marker(kind) == Item(kind, 0, None, None)
Value(kind, val) == Item(kind, 0, val, None)

\* for i, source in enumerate(response['sources']):
\*     print(f"  {i+1}. {source['title']} ({source['uri']})")
\* The lines printed, and whether the loop ended without an exception.
RECURSIVE PrintSources(_, _)
PrintSources(sources, i) ==
  IF i > Len(sources) THEN [lines |-> <<>>, ok |-> TRUE]
  ELSE LET title == PyItem(sources[i], "title")
           uri == PyItem(sources[i], "uri") IN
       IF title.k = "raise"
         THEN [lines |-> <<Value("app_error", Str(title.msg))>>, ok |-> FALSE]
       ELSE IF uri.k = "raise"
         THEN [lines |-> <<Value("app_error", Str(uri.msg))>>, ok |-> FALSE]
       ELSE LET rest == PrintSources(sources, i + 1) IN
            [lines |-> <<Item("source", i, title.v, uri.v)>> \o rest.lines,
             ok |-> rest.ok]

\* Step 3 of the loop body, "Display Final Answer": what it prints for the
\* value get_llm_answer returned.  An exception raised on the way is caught
\* by the loop's except Exception clause, which prints it.
DisplayAnswer(response) ==
  LET text == PyItem(response, "text") IN
  IF text.k = "raise"
    THEN <<Marker("answer_header"), Value("app_error", Str(text.msg))>>
  ELSE LET sources == PyItem(response, "sources") IN
  IF sources.k = "raise"
    THEN <<Marker("answer_header"), Value("text", text.v),
           Value("app_error", Str(sources.msg))>>
  ELSE IF ~Truthy(sources.v)
    THEN <<Marker("answer_header"), Value("text", text.v), Marker("rule")>>
  ELSE LET printed == PrintSources(sources.v.l, 1) IN
       <<Marker("answer_header"), Value("text", text.v),
         Marker("sources_header")>>
       \o printed.lines
       \o (IF printed.ok THEN <<Marker("rule")>> ELSE <<>>)

\* raw_question.lower() in ('quit', 'exit')
IsQuit(raw_question) ==
  Lower(raw_question) \in {<<"q","u","i","t">>, <<"e","x","i","t">>}

\* A blank test that forgets strip().
IsBlankNoStrip(raw_question) == raw_question = <<>>

\* not raw_question.strip()
IsBlank(raw_question) == Strip(raw_question) = <<>>

\* Where the loop is after its except Exception clause had it break.
AfterExceptClauseBreak == "exited"

\* Where the loop is after its except Exception clause: the clause prints the
\* error and has no break, so the while loop goes back to input().
AfterExceptClause == "read"

\* A call that passes the processed question.
CallArgumentProcessed(raw_question, processed_question) == processed_question

\* response = get_llm_answer(raw_question): what the loop passes.
CallArgument(raw_question, processed_question) == raw_question

\* input() returns a line: the loop body down to the call of get_llm_answer.
CliInput(raw_question) ==
  /\ app = "cli" /\ pc = "read" /\ served < MaxInputs
  /\ served' = served + 1
  /\ line' = raw_question
  /\ IF IsQuit(raw_question)
       THEN /\ out' = <<Marker("goodbye")>>
            /\ pc' = "exited"
            /\ calls' = 0
            /\ svc' = IdleCall
       ELSE IF IsBlank(raw_question)
         THEN /\ out' = <<>>
              /\ pc' = "read"
              /\ calls' = 0
              /\ svc' = IdleCall
         ELSE /\ out' = <<Value("processed", Chars(preprocess_question(raw_question))),
                          Marker("thinking")>>
              /\ pc' = "call"
              /\ calls' = 1
              /\ svc' = CliCall(CallArgument(raw_question,
                                              preprocess_question(raw_question)))
  /\ UNCHANGED <<frames, app, version, req, resp>>

\* One attempt of get_llm_answer.
CliAttempt(o) ==
  /\ app = "cli" /\ pc = "call" /\ svc.pc = "try"
  /\ svc' = get_llm_answer(svc, o, version)
  /\ UNCHANGED <<frames, app, version, pc, served, line, out, req, resp, calls>>

\* time.sleep(wait_time) in either program.
Sleep ==
  /\ pc = "call" /\ svc.pc = "sleep"
  /\ svc' = AfterSleep(svc)
  /\ UNCHANGED <<frames, app, version, pc, served, line, out, req, resp, calls>>

\* input() raises EOFError (standard input is closed): the except Exception
\* clause prints it.  No line was read, so line and calls keep describing
\* the line last read.
CliEOF ==
  /\ app = "cli" /\ pc = "read" /\ served < MaxInputs
  /\ served' = served + 1
  /\ out' = <<Value("app_error", Str("EOF when reading a line"))>>
  /\ pc' = AfterExceptClause
  /\ UNCHANGED <<frames, app, version, line, req, resp, calls, svc>>

\* get_llm_answer has ended: the loop prints the answer (or, had the call
\* raised, the except Exception clause prints the error) and goes back to
\* input().  The frame of the call is gone.
CliDisplay ==
  /\ app = "cli" /\ pc = "call" /\ svc.pc \in {"returned", "raised"}
  /\ LET printed == IF svc.pc = "returned" THEN DisplayAnswer(svc.ret)
                    ELSE <<Value("app_error", Str(svc.exc))>> IN
     /\ out' = out \o printed
     /\ pc' = IF printed[Len(printed)].kind = "app_error"
                THEN AfterExceptClause ELSE "read"
  /\ svc' = IdleCall
  /\ UNCHANGED <<frames, app, version, served, line, req, resp, calls>>

\* Ctrl-C while the program blocks in input(), in requests.post or in
\* time.sleep: except KeyboardInterrupt prints the farewell and breaks.
CliInterrupt ==
  /\ app = "cli"
  /\ pc = "read" \/ (pc = "call" /\ svc.pc \in {"try", "sleep"})
  /\ out' = out \o <<Marker("goodbye")>>
  /\ pc' = "exited"
  /\ UNCHANGED <<frames, app, version, served, line, req, resp, calls, svc>>

\* ------------------------------------------------------ the /ask handler
\* jsonify(value): a response with status 200 carrying the value as JSON.
jsonify(value) == [status |-> 200, json |-> value]

\* A propagated exception: Flask answers 500.
InternalServerError == [status |-> 500, json |-> None]

\* data.get('question', '').strip()
RequestQuestion(data) ==
  LET q == PyGet(data, "question", Chars(<<>>)) IN
  IF q.k = "raise" THEN q
  ELSE IF q.v.t = "str" THEN Ret(Chars(Strip(q.v.c)))
  ELSE Raise("AttributeError", "'" \o TypeName(q.v) \o "' object has no attribute 'strip'")

\* POST /ask arrives: ask_llm down to the call of get_llm_answer_api, or to
\* its 400 response, or to the exception it raises.
AskBegin(data) ==
  /\ app = "web" /\ pc = "wait" /\ served < MaxInputs
  /\ served' = served + 1
  /\ req' = data
  /\ LET question == RequestQuestion(data) IN
     IF question.k = "raise"
       THEN /\ resp' = InternalServerError
            /\ pc' = "wait" /\ calls' = 0 /\ svc' = IdleCall
       ELSE IF ~Truthy(question.v)
         THEN /\ resp' = [status |-> 400,
                          json |-> WebAnswer(Str("Please provide a question."), List(<<>>))]
              /\ pc' = "wait" /\ calls' = 0 /\ svc' = IdleCall
         ELSE /\ resp' = NoResponse
              /\ pc' = "call" /\ calls' = 1
              /\ svc' = WebCall(question.v.c)
  /\ UNCHANGED <<frames, app, version, line, out>>

\* One attempt of get_llm_answer_api.
WebAttempt(o) ==
  /\ app = "web" /\ pc = "call" /\ svc.pc = "try"
  /\ svc' = get_llm_answer_api(svc, o, version)
  /\ UNCHANGED <<frames, app, version, pc, served, line, out, req, resp, calls>>

\* get_llm_answer_api has ended: return jsonify(response).
AskEnd ==
  /\ app = "web" /\ pc = "call" /\ svc.pc \in {"returned", "raised"}
  /\ resp' = IF svc.pc = "returned" THEN jsonify(svc.ret) ELSE InternalServerError
  /\ pc' = "wait"
  /\ svc' = IdleCall
  /\ UNCHANGED <<frames, app, version, served, line, out, req, calls>>

Next ==
  \/ \E l \in Lines : CliInput(l)
  \/ CliEOF
  \/ \E o \in Outcomes : CliAttempt(o)
  \/ Sleep
  \/ CliDisplay
  \/ CliInterrupt
  \/ \E d \in RequestBodies : AskBegin(d)
  \/ \E o \in Outcomes : WebAttempt(o)
  \/ AskEnd

Spec == Init /\ [][Next]_vars

\* ------------------------------------------- the service without a caller
\* The outcomes of an attempt in the specifications below: a transport
\* failure, a 2xx response without the expected shape, a 2xx response with
\* text and one source.
FewOutcomes ==
  { Outcome("conn", NoBody),
    Outcome("ok", Body(EmptyObj)),
    Outcome("ok", Body(Obj1("candidates", List(<<
      Obj2("content", GoodContent, "groundingMetadata",
           Obj1("groundingAttributions", List(<<
             Obj1("web", Obj2("uri", Str("u1"), "title", Str("t1")))>>)))>>)))) }

\* One iteration of the for loop of the service of program a.
Service(a, s, o, v) ==
  IF a = "cli" THEN get_llm_answer(s, o, v) ELSE get_llm_answer_api(s, o, v)

\* Program a calls its service.
Call(a, prompt) == IF a = "cli" THEN CliCall(prompt) ELSE WebCall(prompt)

\* What an invocation has been through: the outcome of each attempt and the
\* end of each sleep, in order.
Posted(o) == [e |-> "post", o |-> o]
Slept == [e |-> "sleep", o |-> Outcome("none", NoBody)]

\* The question of the i-th invocation.
Prompt(i) == <<"q", ToString(i)>>

\* ---------------------------------------------- concurrent invocations

\* A step that writes the loop variable of every invocation in progress, as
\* if attempt were a module-level global.
WriteFrameSharedAttempt(fs, i, s) ==
  [j \in DOMAIN fs |->
     IF j = i THEN [fs[j] EXCEPT !.call = s]
     ELSE [fs[j] EXCEPT !.call.attempt = s.attempt]]

\* payload, attempt, response, result, candidate, text, sources, wait_time
\* are locals of the function: a step of invocation i writes frame i only.
\* The module-level names (API_URL, API_KEY, MAX_RETRIES) are only read.
WriteFrame(fs, i, s) == [fs EXCEPT ![i].call = s]

\* Threads each enter the service with their own question.
InitConc ==
  /\ InitCaller
  /\ frames = [i \in 1..MaxConcurrent |->
                 [call |-> Call(app, Prompt(i)), hist |-> <<>>]]

\* Invocation i makes one attempt.
ConcAttempt(i, o) ==
  /\ frames[i].call.pc = "try"
  /\ frames' = [WriteFrame(frames, i, Service(app, frames[i].call, o, version))
                  EXCEPT ![i].hist = Append(@, Posted(o))]
  /\ UNCHANGED <<app, version, pc, served, line, out, req, resp, calls, svc>>

\* The sleep of invocation i ends.
ConcSleep(i) ==
  /\ frames[i].call.pc = "sleep"
  /\ frames' = [WriteFrame(frames, i, AfterSleep(frames[i].call))
                  EXCEPT ![i].hist = Append(@, Slept)]
  /\ UNCHANGED <<app, version, pc, served, line, out, req, resp, calls, svc>>

NextConc ==
  \/ \E i \in 1..MaxConcurrent : \E o \in FewOutcomes : ConcAttempt(i, o)
  \/ \E i \in 1..MaxConcurrent : ConcSleep(i)

SpecConc == InitConc /\ [][NextConc]_vars

\* ---------------------------------------------- successive invocations
\* A call that resumes the loop variable where the previous call left it.
CallAgainResume(s, prompt) == [Call(app, prompt) EXCEPT !.attempt = s.attempt]

\* The caller calls the service again; s is the frame of the previous call,
\* which has ended.  The new call has its own payload and its own for loop
\* over range(MAX_RETRIES); nothing of s is read.
CallAgain(s, prompt) == Call(app, prompt)

\* The caller (the loop of main(), or ask_llm for the next request) calls the
\* service; frames keeps the frames of the calls that ended before.
SeqCall ==
  /\ svc.pc \in {"idle", "returned", "raised"} /\ served < MaxInputs
  /\ served' = served + 1
  /\ frames' = IF svc.pc = "idle" THEN frames ELSE Append(frames, svc)
  /\ svc' = CallAgain(svc, Prompt(served + 1))
  /\ UNCHANGED <<app, version, pc, line, out, req, resp, calls>>

\* The call in progress makes one attempt.
SeqAttempt(o) ==
  /\ svc.pc = "try"
  /\ svc' = Service(app, svc, o, version)
  /\ UNCHANGED <<frames, app, version, pc, served, line, out, req, resp, calls>>

\* The sleep of the call in progress ends.
SeqSleep ==
  /\ svc.pc = "sleep"
  /\ svc' = AfterSleep(svc)
  /\ UNCHANGED <<frames, app, version, pc, served, line, out, req, resp, calls>>

NextSeq ==
  \/ SeqCall
  \/ \E o \in FewOutcomes : SeqAttempt(o)
  \/ SeqSleep

SpecSeq == Init /\ [][NextSeq]_vars

\* ------------------------------------------- the two services side by side
Programs == {"cli", "web"}

\* get_llm_answer and get_llm_answer_api are called with the same question.
InitPair ==
  /\ InitCaller
  /\ frames = [a \in Programs |-> Call(a, Prompt(1))]

\* The attempt of each service that is at its requests.post meets the same
\* transport outcome and the same body.
PairAttempt(o) ==
  /\ \E a \in Programs : frames[a].pc = "try"
  /\ frames' = [a \in Programs |->
                  IF frames[a].pc = "try" THEN Service(a, frames[a], o, version)
                  ELSE frames[a]]
  /\ UNCHANGED <<app, version, pc, served, line, out, req, resp, calls, svc>>

\* The sleeps in progress end.
PairSleep ==
  /\ \E a \in Programs : frames[a].pc = "sleep"
  /\ frames' = [a \in Programs |->
                  IF frames[a].pc = "sleep" THEN AfterSleep(frames[a])
                  ELSE frames[a]]
  /\ UNCHANGED <<app, version, pc, served, line, out, req, resp, calls, svc>>

NextPair ==
  \/ \E o \in Outcomes : PairAttempt(o)
  \/ PairSleep

SpecPair == InitPair /\ [][NextPair]_vars

\* ================================================================ claims
Returned == svc.pc = "returned"
\* The name of the field that carries the answer's text.
TextField == IF app = "cli" THEN "text" ELSE "answer"
\* str(e) of the three transport failures.
TransportMessages == {requests_post(Outcome(k, NoBody)).msg : k \in TransportFailures}

\* C1: the answer operation is total.  Whatever the transport outcomes and
\* the response bodies, an invocation never raises to its caller, never
\* returns None, and what it returns is a dict with exactly the text field
\* (answer in the web program) and the sources field; while it has not
\* returned it is within the MAX_RETRIES attempts of its loop, so it ends.
C1_Total ==
  /\ svc.pc # "raised"
  /\ svc.pc \in {"try", "sleep"} =>
       /\ svc.attempt < MAX_RETRIES
       /\ svc.posts = svc.attempt + (IF svc.pc = "sleep" THEN 1 ELSE 0)
  /\ Returned =>
       /\ svc.ret.t = "obj"
       /\ DOMAIN svc.ret.d = {TextField, "sources"}

\* C1 witness: an invocation has returned a dict after a 2xx response whose
\* body was not JSON or was the JSON value null.
C1_Witness ==
  /\ Returned
  /\ svc.last = "ok"
  /\ svc.lastBody \in {NoBody, Body(None)}
  /\ svc.ret.t = "obj"

\* C2: when the transport fails on every attempt, exactly MAX_RETRIES = 5
\* attempts are made, never a sixth, and the invocation returns the
\* exhausted-retries error text with empty sources.
C2_Exhausted ==
  /\ svc.posts <= 5
  /\ (Returned /\ svc.first2xx = 0) =>
       /\ svc.posts = 5
       /\ svc.last \in TransportFailures
       /\ svc.ret.t = "obj"
       /\ svc.ret.d[TextField] \in
            { Str((IF app = "cli"
                     THEN "Error: Failed to connect to API after 5 attempts. "
                     ELSE "API Error: Failed to connect to LLM after 5 attempts. ")
                  \o m) : m \in TransportMessages }
       /\ svc.ret.d["sources"] = List(<<>>)

\* C2 witness: an invocation whose five attempts all failed at transport
\* level has returned.
C2_Witness ==
  /\ Returned
  /\ svc.first2xx = 0
  /\ svc.posts = 5
  /\ Len(svc.sleeps) = 4

\* ------------------------------------ shapes of a response, as claimed
Has(x, key) == x.t = "obj" /\ key \in DOMAIN x.d
NonEmptyList(x) == x.t = "list" /\ Len(x.l) > 0
\* Equality of two Python values.
PyEq(a, b) == a.t = b.t /\ a = b
\* The last attempt received a 2xx response whose body is JSON.
GotJson == svc.last = "ok" /\ svc.lastBody.valid
Json == svc.lastBody.json

\* The expected result shape is absent: no candidates key, an empty
\* candidates list, a null first candidate, a first candidate without
\* content, or content without parts or with empty parts.
LacksShape(j) ==
  /\ j.t = "obj"
  /\ \/ ~Has(j, "candidates")
     \/ (j.d.candidates.t = "list" /\ Len(j.d.candidates.l) = 0)
     \/ /\ NonEmptyList(j.d.candidates)
        /\ LET c == j.d.candidates.l[1] IN
           \/ c.t = "null"
           \/ (c.t = "obj" /\ ~Has(c, "content"))
           \/ /\ Has(c, "content")
              /\ c.d.content.t = "obj"
              /\ \/ ~Has(c.d.content, "parts")
                 \/ (c.d.content.d.parts.t = "list" /\ Len(c.d.content.d.parts.l) = 0)

\* The response is well formed: candidates[0].content.parts[0].text exists.
HasText(j) ==
  /\ Has(j, "candidates") /\ NonEmptyList(j.d.candidates)
  /\ Has(j.d.candidates.l[1], "content")
  /\ Has(j.d.candidates.l[1].d.content, "parts")
  /\ NonEmptyList(j.d.candidates.l[1].d.content.d.parts)
  /\ Has(j.d.candidates.l[1].d.content.d.parts.l[1], "text")
TextOf(j) == j.d.candidates.l[1].d.content.d.parts.l[1].d.text

\* The well-formed response carries a list of grounding attributions.
HasAttributions(j) ==
  /\ HasText(j)
  /\ Has(j.d.candidates.l[1], "groundingMetadata")
  /\ Has(j.d.candidates.l[1].d.groundingMetadata, "groundingAttributions")
  /\ j.d.candidates.l[1].d.groundingMetadata.d.groundingAttributions.t = "list"
AttributionsOf(j) == j.d.candidates.l[1].d.groundingMetadata.d.groundingAttributions.l

\* An attribution with both a URI and a title.
HasUriAndTitle(attr) ==
  /\ Has(attr, "web")
  /\ Has(attr.d.web, "uri")
  /\ Has(attr.d.web, "title")
\* The sources claimed for a list of attributions: those with both, in order.
ClaimedSources(attrs) ==
  LET kept == SelectSeq(attrs, HasUriAndTitle) IN
  [i \in 1..Len(kept) |-> Obj2("uri", kept[i].d.web.d.uri, "title", kept[i].d.web.d.title)]

\* C3: if the first k-1 attempts fail at transport level and attempt k
\* receives a 2xx response, exactly k attempts are made: the invocation has
\* returned on that attempt and no later attempt is issued.
C3_ExactlyK ==
  svc.first2xx > 0 =>
    /\ Returned
    /\ svc.posts = svc.first2xx

\* C4: the sleep after the i-th failed attempt (0-indexed) lasts 2^i, so the
\* sleeps are a prefix of 1,2,4,8; a sleep follows only a transport failure,
\* never the fifth failed attempt and never an attempt that received a
\* response; at return the sleeps number the attempts minus one.
C4_Backoff ==
  /\ Len(svc.sleeps) <= 4
  /\ \A i \in 1..Len(svc.sleeps) : svc.sleeps[i] = 2 ^ (i - 1)
  /\ svc.pc = "sleep" =>
       /\ svc.last \in TransportFailures
       /\ svc.posts < 5
       /\ svc.wait = 2 ^ (svc.posts - 1)
  /\ Returned => Len(svc.sleeps) = svc.posts - 1

\* C5: a 2xx response whose JSON lacks the expected result shape returns
\* exactly the text "API response was empty or malformed." with sources [].
C5_Malformed ==
  (Returned /\ GotJson /\ LacksShape(Json)) =>
    /\ svc.ret.t = "obj"
    /\ DOMAIN svc.ret.d = {TextField, "sources"}
    /\ PyEq(svc.ret.d[TextField], Str("API response was empty or malformed."))
    /\ PyEq(svc.ret.d["sources"], List(<<>>))

\* C6: for a well-formed response with a list of grounding attributions, the
\* returned sources are exactly the attributions that have both a URI and a
\* title, in order, each as {uri, title}; the others are skipped and the
\* text returned is the candidate's text.
C6_Sources ==
  (Returned /\ GotJson /\ HasAttributions(Json)) =>
    /\ svc.ret.t = "obj"
    /\ PyEq(svc.ret.d[TextField], TextOf(Json))
    /\ PyEq(svc.ret.d["sources"], List(ClaimedSources(AttributionsOf(Json))))

\* C7: in every Answer returned, sources is a list, never absent or None;
\* it is empty whenever the response was not a well-formed 2xx response,
\* whenever the text returned is not the candidate's text (the three kinds
\* of failure), and whenever the response has no groundingMetadata key or
\* no groundingAttributions.
C7_SourcesList ==
  Returned =>
    /\ svc.ret.t = "obj"
    /\ "sources" \in DOMAIN svc.ret.d
    /\ svc.ret.d["sources"].t = "list"
    /\ ( \/ ~GotJson
         \/ ~HasText(Json)
         \/ ~PyEq(svc.ret.d[TextField], TextOf(Json))
         \/ ~HasAttributions(Json) )
       => Len(svc.ret.d["sources"].l) = 0

\* C7 witness: a well-formed response with no groundingMetadata key has been
\* answered with the candidate's text and an empty list of sources.
C7_Witness ==
  /\ Returned /\ GotJson /\ HasText(Json)
  /\ ~Has(Json.d.candidates.l[1], "groundingMetadata")
  /\ PyEq(svc.ret.d[TextField], TextOf(Json))
  /\ PyEq(svc.ret.d["sources"], List(<<>>))

\* C8: only transport-level failures are retried: once an attempt has
\* received a 2xx response the invocation ends on that attempt, whatever the
\* body, with no further attempt and no backoff sleep; a body that is not
\* JSON gives an Answer with empty sources.
C8_OnlyTransportRetried ==
  svc.last = "ok" =>
    /\ Returned
    /\ svc.wait = 0
    /\ ~svc.lastBody.valid =>
         /\ svc.ret.t = "obj"
         /\ PyEq(svc.ret.d["sources"], List(<<>>))

\* The request carries no question, or one that is empty after trimming.
QuestionMissing(data) ==
  \/ ~Has(data, "question")
  \/ /\ data.d.question.t = "str"
     /\ \A i \in 1..Len(data.d.question.c) : IsSpace(data.d.question.c[i])

\* C9: for every JSON object body, /ask answers 400 with {"answer": "Please
\* provide a question.", "sources": []} and calls no model when the
\* question is absent or empty after trimming; otherwise it invokes the
\* service exactly once and answers 200 with exactly the fields answer (a
\* string) and sources (a list of {uri, title}).
C9_AskHandler ==
  /\ (app = "web" /\ pc = "call") => (~QuestionMissing(req) /\ calls = 1)
  /\ (app = "web" /\ pc = "wait" /\ served > 0) =>
       IF QuestionMissing(req)
         THEN /\ resp = [status |-> 400,
                         json |-> Obj2("answer", Str("Please provide a question."),
                                       "sources", List(<<>>))]
              /\ calls = 0
         ELSE /\ resp.status = 200
              /\ calls = 1
              /\ resp.json.t = "obj"
              /\ DOMAIN resp.json.d = {"answer", "sources"}
              /\ resp.json.d.answer.t = "str"
              /\ resp.json.d.sources.t = "list"
              /\ \A i \in 1..Len(resp.json.d.sources.l) :
                   /\ resp.json.d.sources.l[i].t = "obj"
                   /\ DOMAIN resp.json.d.sources.l[i].d = {"uri", "title"}

\* The line equals "quit" or "exit" in some letter case.
QuitLine(l) ==
  \E w \in {<<"q","u","i","t">>, <<"e","x","i","t">>} :
    /\ Len(l) = Len(w)
    /\ \A i \in 1..Len(w) : l[i] = w[i] \/ l[i] = UpperCase[CHOOSE k \in 1..26 : LowerCase[k] = w[i]]
\* The line is empty or whitespace only.
BlankLine(l) == \A i \in 1..Len(l) : IsSpace(l[i])
IsTextLine(x) == x.kind = "text"
IsSourceLine(x) == x.kind = "source"

\* What the claim says of the line last read, in every state after it.
C10_Dispatched ==
  (app = "cli" /\ served > 0) =>
    /\ QuitLine(line) => (pc = "exited" /\ calls = 0 /\ svc.pc = "idle")
    /\ (BlankLine(line) /\ ~QuitLine(line)) =>
         /\ pc \in {"read", "exited"}
         /\ calls = 0
         /\ svc.pc = "idle"
         /\ SelectSeq(out, IsTextLine) = <<>>
    /\ (~BlankLine(line) /\ ~QuitLine(line)) =>
         /\ calls = 1
         /\ pc = "call" => (svc.pc # "idle" /\ svc.prompt = line)

\* What the claim says of the step that ends a service call: the text
\* returned is printed once, then one numbered line per source, in order.
C10_Printed ==
  (pc = "call" /\ pc' = "read") =>
    LET texts == SelectSeq(out', IsTextLine)
        srcs == SelectSeq(out', IsSourceLine) IN
    /\ svc.ret.t = "obj"
    /\ Len(texts) = 1
    /\ PyEq(texts[1].a, svc.ret.d.text)
    /\ Len(srcs) = Len(svc.ret.d.sources.l)
    /\ \A i \in 1..Len(srcs) :
         /\ srcs[i].n = i
         /\ PyEq(srcs[i].a, svc.ret.d.sources.l[i].d.title)
         /\ PyEq(srcs[i].b, svc.ret.d.sources.l[i].d.uri)
    /\ \A i, j \in 1..Len(out') :
         (out'[i].kind = "text" /\ out'[j].kind = "source") => i < j

\* C10: each line read in the interactive loop has exactly one of three
\* outcomes: "quit" or "exit" in any letter case ends the loop with no
\* service call; a blank line is ignored with no service call; any other
\* line causes exactly one service invocation with that line, after which
\* its text and then its numbered sources are printed.
C10_Loop == [](C10_Dispatched) /\ [][C10_Printed]_vars

\* C10 witness: the second line read was neither blank nor quit/exit, the
\* service was invoked once for it, and its text and two numbered sources
\* have been printed.
C10_Witness ==
  /\ app = "cli" /\ pc = "read" /\ served = 2
  /\ ~BlankLine(line) /\ ~QuitLine(line)
  /\ calls = 1
  /\ Len(SelectSeq(out, IsTextLine)) = 1
  /\ Len(SelectSeq(out, IsSourceLine)) = 2

\* The texts of the exhausted-retries Answer of the interactive program.
CliExhaustedTexts == {CliExhausted(m).d.text : m \in TransportMessages}

\* What the claim says of one step of the interactive program: the step that
\* follows the end of an invocation, and any step that prints an application
\* error, leave the loop at input(); a step that ends the loop either reads
\* a quit/exit line or is a keyboard interrupt (no line is read, the call in
\* progress if any is left as it is, and the farewell is printed).
C11_Step ==
  app = "cli" =>
    /\ (pc = "call" /\ svc.pc \in {"returned", "raised"}) => pc' = "read"
    /\ (out' # out /\ out' # <<>> /\ out'[Len(out')].kind = "app_error") => pc' = "read"
    /\ (pc # "exited" /\ pc' = "exited") =>
         \/ pc = "read" /\ served' = served + 1 /\ QuitLine(line')
         \/ served' = served /\ svc' = svc /\ out' = out \o <<Marker("goodbye")>>

\* What the claim says of the loop at input(): while inputs remain, the next
\* line can be read and served.
C11_Reading ==
  (app = "cli" /\ pc = "read" /\ served < MaxInputs) =>
    ENABLED (\E l \in Lines : CliInput(l))

\* C11: no service failure ends the interactive loop.  After any outcome of
\* an invocation and after any exception raised inside a loop iteration the
\* loop is back at reading the next input, which it serves; the loop ends
\* only on a quit/exit line or on a keyboard interrupt.
C11_LoopSurvives == [][C11_Step]_vars /\ [](C11_Reading)

\* C11 witness: an invocation exhausted its retries, its error text has been
\* printed, and the loop is at input() with inputs still to come.
C11_Witness ==
  /\ app = "cli" /\ pc = "read" /\ served < MaxInputs
  /\ \E i \in 1..Len(out) : out[i].kind = "text" /\ out[i].a \in CliExhaustedTexts

RECURSIVE SumSeq(_)
SumSeq(q) == IF q = <<>> THEN 0 ELSE q[1] + SumSeq(Tail(q))

\* The longest an invocation can have lasted so far: each attempt made
\* counted at the timeout, each sleep (the one in progress included) at
\* its duration.
Elapsed(s) == timeout * s.posts + SumSeq(s.sleeps) + s.wait

\* C12: counting each attempt as lasting at most the 30-unit timeout and
\* each backoff sleep as lasting its delay, the time elapsed in an
\* invocation is at most 181 units, over every sequence of outcomes.
C12_Elapsed == Elapsed(svc) <= 181

\* C12 witness: the longest invocation, five attempts that all failed and
\* the four sleeps between them, has returned after 30 x 5 + 15 units.
C12_Witness ==
  /\ Returned
  /\ svc.posts = MAX_RETRIES
  /\ Len(svc.sleeps) = MAX_RETRIES - 1
  /\ Elapsed(svc) = 165

\* The invocation that starts in state s and goes through h with no other
\* invocation running.
RECURSIVE Alone(_, _, _, _)
Alone(s, h, a, v) ==
  IF h = <<>> THEN s
  ELSE Alone(IF h[1].e = "sleep" THEN AfterSleep(s) ELSE Service(a, s, h[1].o, v),
             Tail(h), a, v)

\* Every invocation is where it would be had it met its outcomes alone.
C13_Alone ==
  \A i \in DOMAIN frames :
    frames[i].call = Alone(Call(app, Prompt(i)), frames[i].hist, app, version)

\* A step of one invocation leaves every other invocation as it was.
C13_Step ==
  \A i, j \in DOMAIN frames :
    (i # j /\ frames'[i] # frames[i]) => frames'[j] = frames[j]

\* C13: invocations of the service that run at the same time, interleaved
\* in any order, do not interfere: each makes the attempts and the sleeps,
\* and returns the Answer, that it would have alone on the same outcomes.
C13_Isolated == [](C13_Alone) /\ [][C13_Step]_vars

\* C13 witness: two invocations are in progress at once, one sleeping after
\* its first failed attempt and one after its fourth.
C13_Witness ==
  /\ frames[1].call.pc = "sleep" /\ frames[1].call.posts = 1
  /\ frames[2].call.pc = "sleep" /\ frames[2].call.posts = 4
  /\ frames[1].call.prompt # frames[2].call.prompt

\* The frame is that of an invocation whose five attempts all failed.
Exhausted(s) == s.pc = "returned" /\ s.first2xx = 0 /\ s.posts = MAX_RETRIES

\* The step that starts an invocation starts it at attempt 0, with no
\* attempt made and no sleep taken.
C14_Fresh ==
  served' = served + 1 =>
    /\ svc'.pc = "try"
    /\ svc'.attempt = 0
    /\ svc'.posts = 0
    /\ svc'.sleeps = <<>>
    /\ svc'.wait = 0

\* An invocation that follows others counts its own attempts only: its
\* first sleep lasts 1, and when every attempt fails it makes all five.
C14_Full ==
  frames # <<>> =>
    /\ svc.pc \in {"try", "sleep"} =>
         svc.attempt = svc.posts - (IF svc.pc = "sleep" THEN 1 ELSE 0)
    /\ (svc.pc = "sleep" /\ svc.posts = 1) => svc.wait = 1
    /\ svc.sleeps # <<>> => svc.sleeps[1] = 1
    /\ (svc.pc = "returned" /\ svc.first2xx = 0) => svc.posts = 5

\* C14: retry state does not carry over between successive invocations.
\* After any sequence of earlier invocations, those that exhausted their
\* retries included, the next one starts at attempt 0, is allowed the full
\* five attempts and has a first backoff delay of 1.
C14_NoCarryOver == [][C14_Fresh]_vars /\ [](C14_Full)

\* C14 witness: after an invocation that exhausted its retries, the next
\* one has made five attempts of its own, with sleeps 1, 2, 4, 8.
C14_Witness ==
  /\ frames # <<>> /\ Exhausted(frames[Len(frames)])
  /\ Exhausted(svc)
  /\ svc.sleeps = <<1, 2, 4, 8>>

\* The request body the claim describes for question q: q is the sole
\* prompt content and Google Search grounding is enabled.
AsClaimed(p, q) ==
  /\ Has(p, "contents")
  /\ PyEq(p.d.contents, List(<<Obj1("parts", List(<<Obj1("text", Chars(q))>>))>>))
  /\ Has(p, "tools")
  /\ PyEq(p.d.tools, List(<<Obj1("google_search", EmptyObj)>>))

\* C15: every attempt of an invocation sends the same request.  The body is
\* built once, before the loop, and no failure or sleep changes it; its sole
\* prompt content is the question string passed to the service, with
\* grounding enabled; in the interactive loop that string is the raw line
\* read, not the output of preprocess_question.
C15_SameRequest ==
  svc.pc # "idle" =>
    /\ Len(svc.sent) = svc.posts
    /\ \A i \in 1..Len(svc.sent) :
         /\ svc.sent[i] = svc.sent[1]
         /\ AsClaimed(svc.sent[i], svc.prompt)
    /\ (app = "cli" /\ pc = "call") =>
         /\ svc.prompt = line
         /\ \A i \in 1..Len(svc.sent) : AsClaimed(svc.sent[i], line)

\* C15 witness: for a line that preprocess_question would change, three
\* attempts, with two failures and two sleeps between them, have each sent
\* the request whose text is the line as typed.
C15_Witness ==
  /\ app = "cli" /\ pc = "call"
  /\ preprocess_question(line) # line
  /\ Len(svc.sent) = 3 /\ Len(svc.sleeps) = 2
  /\ \A i \in 1..3 : AsClaimed(svc.sent[i], line)

\* str(e) of every exception the first except clause can catch.
RetriedMessages == TransportMessages \cup {response_json(NoBody).msg}

\* The kind of outcome of a returned frame f of program a, read off the
\* Answer: the candidate's text of the last response (success), the
\* malformed-shape text, an exhausted-retries text, or else the text of an
\* unexpected exception.
KindOf(a, f) ==
  LET text == f.ret.d[IF a = "cli" THEN "text" ELSE "answer"] IN
  IF f.last = "ok" /\ f.lastBody.valid /\ HasText(f.lastBody.json)
     /\ PyEq(text, TextOf(f.lastBody.json))
    THEN "success"
  ELSE IF text = (IF a = "cli" THEN Str("API response was empty or malformed.")
                  ELSE Str("Error: API response was empty or malformed."))
    THEN "malformed"
  ELSE IF text \in (IF a = "cli" THEN {CliExhausted(m).d.text : m \in RetriedMessages}
                    ELSE {WebExhausted(m).d.answer : m \in RetriedMessages})
    THEN "exhausted"
  ELSE "unexpected"

\* C16: called with the same question and meeting the same transport
\* outcomes and response bodies, get_llm_answer and get_llm_answer_api make
\* the same number of attempts with the same delays, end in the same kind
\* of outcome (success, malformed shape, exhausted retries, unexpected
\* exception) and return the same sources and, on success, the same text,
\* the web program under the field answer.
C16_Equivalent ==
  LET c == frames["cli"]
      w == frames["web"] IN
  /\ c.pc = w.pc
  /\ c.posts = w.posts
  /\ c.sleeps = w.sleeps
  /\ c.wait = w.wait
  /\ c.pc = "returned" =>
       /\ c.ret.t = "obj" /\ DOMAIN c.ret.d = {"text", "sources"}
       /\ w.ret.t = "obj" /\ DOMAIN w.ret.d = {"answer", "sources"}
       /\ KindOf("cli", c) = KindOf("web", w)
       /\ PyEq(c.ret.d.sources, w.ret.d.sources)
       /\ KindOf("cli", c) = "success" => PyEq(c.ret.d.text, w.ret.d.answer)

\* C16 witness: after two failed attempts and sleeps of 1 and 2, both
\* services have returned the candidate's text with the same two sources.
C16_Witness ==
  /\ frames["cli"].pc = "returned" /\ frames["web"].pc = "returned"
  /\ frames["cli"].sleeps = <<1, 2>> /\ frames["web"].sleeps = <<1, 2>>
  /\ KindOf("cli", frames["cli"]) = "success"
  /\ KindOf("web", frames["web"]) = "success"
  /\ Len(frames["cli"].ret.d.sources.l) = 2
  /\ frames["web"].ret.d.sources = frames["cli"].ret.d.sources

====
